---- MODULE Spec2Model ----
(***************************************************************************)
(* Model of rustnao's Handler (src/src/handler.rs): construction, the two  *)
(* setters, generate_bitmask, generate_url and get_sauce.                   *)
(*                                                                         *)
(* Representation:                                                         *)
(*  - a Rust String / &str is a sequence of one-character strings;         *)
(*  - Option<T> is a record: None, or Some(x) = [some |-> TRUE, val |-> x]; *)
(*  - an f64 is a record [nan, v] with v the value in tenths;               *)
(*  - a u32 built by generate_bitmask is the set of its 1-bits (0..31);     *)
(*  - a request URL is the sequence of the <<name, value>> pairs handed to  *)
(*    query_pairs_mut().append_pair, in order.                              *)
(***************************************************************************)
EXTENDS Integers, Sequences, FiniteSets

VARIABLES
    api_key, output_type, testmode, db_mask, db_mask_i, db, num_results,
    short_limit, long_limit, short_left, long_left,
    min_similarity, empty_filter_enabled,
    overflow_checks,   \* build profile: does integer overflow panic (debug) or wrap
    args,              \* arguments of the most recent get_sauce call
    request,           \* the request that call sent, if it sent one
    response,          \* the body that call received, if any
    ret,               \* what that call returned (or that it panicked)
    last_good          \* header of the most recent response with status >= 0

config == <<api_key, output_type, testmode, db_mask, db_mask_i, db, num_results, overflow_checks>>
limits == <<short_limit, long_limit, short_left, long_left>>
filters == <<min_similarity, empty_filter_enabled>>
call == <<args, request, response, ret, last_good>>
vars == <<config, limits, filters, call>>

None == [some |-> FALSE]
Some(x) == [some |-> TRUE, val |-> x]

F(v) == [nan |-> FALSE, v |-> v]
NaN == [nan |-> TRUE, v |-> 0]
FGt(a, b) == ~a.nan /\ ~b.nan /\ a.v > b.v
FLt(a, b) == ~a.nan /\ ~b.nan /\ a.v < b.v
FGe(a, b) == ~a.nan /\ ~b.nan /\ a.v >= b.v

----
(* Strings *)

Digits == <<"0", "1", "2", "3", "4", "5", "6", "7", "8", "9">>
IsDigit(c) == \E i \in 1..10 : Digits[i] = c
DigitVal(c) == (CHOOSE i \in 1..10 : Digits[i] = c) - 1

StartsWith(s, p) == Len(s) >= Len(p) /\ SubSeq(s, 1, Len(p)) = p

RECURSIVE NatToString(_)
NatToString(n) ==
    IF n < 10 THEN <<Digits[n + 1]>>
    ELSE NatToString(n \div 10) \o <<Digits[(n % 10) + 1]>>

\* i32 / u32 Display
to_string(n) == IF n < 0 THEN <<"-">> \o NatToString(-n) ELSE NatToString(n)

RECURSIVE DigitsValue(_, _)
DigitsValue(s, acc) ==
    IF s = <<>> THEN acc ELSE DigitsValue(Tail(s), 10 * acc + DigitVal(Head(s)))

\* str::parse::<u32>: an optional leading "+", then one or more decimal digits.
\* (Strings of ten or more digits, which may overflow u32, are outside the inputs.)
ParseU32(s) ==
    LET body == IF s /= <<>> /\ Head(s) = "+" THEN Tail(s) ELSE s IN
    IF body /= <<>> /\ Len(body) <= 9 /\ \A i \in 1..Len(body) : IsDigit(body[i])
    THEN [ok |-> TRUE, val |-> DigitsValue(body, 0)]
    ELSE [ok |-> FALSE, val |-> 0]

RECURSIVE IndexOf(_, _, _)
IndexOf(s, c, i) ==
    IF i > Len(s) THEN 0 ELSE IF s[i] = c THEN i ELSE IndexOf(s, c, i + 1)

\* str::parse::<f64> on the strings of the model: digits, optionally followed by
\* "." and digits; the value is kept to one decimal place.
ParseF64(s) ==
    LET dot == IndexOf(s, ".", 1)
        ip == IF dot = 0 THEN s ELSE SubSeq(s, 1, dot - 1)
        fp == IF dot = 0 THEN <<>> ELSE SubSeq(s, dot + 1, Len(s))
        alldig(t) == \A i \in 1..Len(t) : IsDigit(t[i])
    IN  IF alldig(ip) /\ alldig(fp) /\ Len(ip) + Len(fp) > 0 /\ Len(ip) <= 8
        THEN [ok |-> TRUE,
              val |-> F(10 * DigitsValue(ip, 0) + (IF fp = <<>> THEN 0 ELSE DigitVal(fp[1])))]
        ELSE [ok |-> FALSE, val |-> NaN]

\* s.split(c).collect::<Vec<&str>>()
RECURSIVE Split(_, _)
Split(s, c) ==
    LET i == IndexOf(s, c, 1) IN
    IF i = 0 THEN <<s>> ELSE <<SubSeq(s, 1, i - 1)>> \o Split(SubSeq(s, i + 1, Len(s)), c)

----
(* generate_bitmask: lines 320-332 *)

\* u32::pow(2, e): the set of 1-bits of the result.  2^e does not fit a u32 for
\* e >= 32: with overflow checks the multiplication panics, without them it wraps to 0.
pow2(e) ==
    IF e < 32 THEN [panic |-> FALSE, bits |-> {e}]
    ELSE [panic |-> overflow_checks, bits |-> {}]

\* a ^ b on u32 values given by their 1-bits
BitXor(a, b) == (a \ b) \cup (b \ a)

bit_offset(m) == IF m >= 18 THEN 1 ELSE 0

RECURSIVE bitmask_loop(_, _)
bitmask_loop(mask, res) ==
    IF mask = <<>> THEN [panic |-> FALSE, bits |-> res]
    ELSE LET m == Head(mask)
             p == pow2(m - bit_offset(m))
         IN  IF p.panic THEN [panic |-> TRUE, bits |-> res]
             ELSE bitmask_loop(Tail(mask), BitXor(res, p.bits))

generate_bitmask(mask) == bitmask_loop(mask, {})

\* Decimal digits (least significant first) of 2*d + c
RECURSIVE DoubleAdd(_, _)
DoubleAdd(d, c) ==
    IF d = <<>> THEN (IF c = 0 THEN <<>> ELSE <<c>>)
    ELSE LET v == 2 * Head(d) + c IN <<v % 10>> \o DoubleAdd(Tail(d), v \div 10)

RECURSIVE BitsToDecimal(_, _)
BitsToDecimal(bits, b) ==
    IF b > 31 THEN <<>>
    ELSE DoubleAdd(BitsToDecimal(bits, b + 1), IF b \in bits THEN 1 ELSE 0)

\* u32 Display, for a u32 given by its 1-bits
U32ToString(bits) ==
    LET d == BitsToDecimal(bits, 0) IN
    IF d = <<>> THEN <<"0">> ELSE [i \in 1..Len(d) |-> Digits[d[Len(d) + 1 - i] + 1]]

----
(* generate_url: lines 334-400 *)

HTTPS == <<"h", "t", "t", "p", "s", ":", "/", "/">>
HTTP == <<"h", "t", "t", "p", ":", "/", "/">>

\* line 394
url_is_link(image_path) == StartsWith(image_path, HTTPS) \/ StartsWith(image_path, HTTP)
\* mutant: the upload test looks for the https prefix only
form_is_link_https_only(image_path) == StartsWith(image_path, HTTPS)

\* line 551
form_is_link(image_path) == StartsWith(image_path, HTTPS) \/ StartsWith(image_path, HTTP)

url_db_pairs ==
    IF db.some THEN << <<"db", to_string(db.val)>> >> ELSE <<>>

db_default_pair == << <<"db", <<"9", "9", "9">> >> >>

\* mutant: an empty db_mask list is not given the default database
url_dbmask_pairs_no_default ==
    IF db_mask.some
    THEN IF Len(db_mask.val) > 0
         THEN LET g == generate_bitmask(db_mask.val) IN
              [panic |-> g.panic, pairs |-> << <<"dbmask", U32ToString(g.bits)>> >>]
         ELSE [panic |-> FALSE, pairs |-> <<>>]
    ELSE [panic |-> FALSE, pairs |-> IF ~db.some THEN db_default_pair ELSE <<>>]

\* lines 347-362: [panic, pairs]
url_dbmask_pairs ==
    IF db_mask.some
    THEN IF Len(db_mask.val) > 0
         THEN LET g == generate_bitmask(db_mask.val) IN
              [panic |-> g.panic, pairs |-> << <<"dbmask", U32ToString(g.bits)>> >>]
         ELSE [panic |-> FALSE, pairs |-> IF ~db.some THEN db_default_pair ELSE <<>>]
    ELSE [panic |-> FALSE, pairs |-> IF ~db.some THEN db_default_pair ELSE <<>>]

url_dbmaski_pairs ==
    IF db_mask_i.some /\ Len(db_mask_i.val) > 0
    THEN LET g == generate_bitmask(db_mask_i.val) IN
         [panic |-> g.panic, pairs |-> << <<"dbmaski", U32ToString(g.bits)>> >>]
    ELSE [panic |-> FALSE, pairs |-> <<>>]

url_testmode_pairs ==
    IF testmode.some THEN << <<"testmode", to_string(testmode.val)>> >>
    ELSE << <<"testmode", <<"0">> >> >>

\* mutant: the Handler's default wins over the per-search value
url_numres_pairs_default_first(nr) ==
    IF num_results.some THEN << <<"numres", to_string(num_results.val)>> >>
    ELSE IF nr.some THEN << <<"numres", to_string(nr.val)>> >>
    ELSE << <<"numres", <<"9", "9", "9">> >> >>

\* lines 381-393
url_numres_pairs(nr) ==
    IF nr.some THEN << <<"numres", to_string(nr.val)>> >>
    ELSE IF num_results.some THEN << <<"numres", to_string(num_results.val)>> >>
    ELSE << <<"numres", <<"9", "9", "9">> >> >>

url_image_pairs(image_path) ==
    IF url_is_link(image_path) THEN << <<"url", image_path>> >> ELSE <<>>

generate_url(image_path, nr) ==
    LET m == url_dbmask_pairs
        mi == url_dbmaski_pairs
    IN  IF m.panic \/ mi.panic THEN [panic |-> TRUE, url |-> <<>>]
        ELSE [panic |-> FALSE,
              url |-> << <<"api_key", api_key>>, <<"output_type", to_string(output_type)>> >>
                      \o url_db_pairs \o m.pairs \o mi.pairs \o url_testmode_pairs
                      \o url_numres_pairs(nr) \o url_image_pairs(image_path)]

----
(* get_sauce: lines 530-620 *)

RetNone == [kind |-> "None"]
RetOk(sauces) == [kind |-> "Ok", sauces |-> sauces]
RetErr(e) == [kind |-> "Err", error |-> e]
\* the call unwound at the given source line
RetPanic(line) == [kind |-> "Panic", line |-> line]

invalid_parameter(text) == [type |-> "InvalidParameters", text |-> text]
invalid_code(code, message) == [type |-> "InvalidCode", code |-> code, message |-> message]
io_error == [type |-> "Io"]
reqwest_error == [type |-> "Reqwest"]

\* line 576: index_name.split(":")[0].split("#")[1].parse::<u32>()
actual_index(index_name) ==
    LET parts == Split(Split(index_name, ":")[1], "#") IN
    IF Len(parts) < 2 THEN [ok |-> FALSE, val |-> 0] ELSE ParseU32(parts[2])

\* line 575
passes_filter(sim, actual_min_sim, sauce) ==
    /\ FGe(sim, actual_min_sim)
    /\ \/ (empty_filter_enabled /\ Len(sauce.ext_urls) > 0)
       \/ ~empty_filter_enabled

\* lines 573-612: [panic (source line, 0 if none), sauces]
RECURSIVE sauce_loop(_, _, _)
sauce_loop(res, actual_min_sim, acc) ==
    IF res = <<>> THEN [panic |-> 0, sauces |-> acc]
    ELSE LET sauce == Head(res)
             sim == ParseF64(sauce.similarity)
         IN  IF ~sim.ok THEN [panic |-> 574, sauces |-> acc]
             ELSE IF passes_filter(sim.val, actual_min_sim, sauce)
             THEN LET idx == actual_index(sauce.index_name) IN
                  IF ~idx.ok THEN [panic |-> 576, sauces |-> acc]
                  ELSE sauce_loop(Tail(res), actual_min_sim,
                                  Append(acc, [ext_urls |-> sauce.ext_urls,
                                               index |-> idx.val,
                                               similarity |-> sim.val]))
             ELSE sauce_loop(Tail(res), actual_min_sim, acc)

\* lines 566-616
collect_sauces(results, ms) ==
    IF results.some
    THEN sauce_loop(results.val, IF ms.some THEN ms.val ELSE min_similarity, <<>>)
    ELSE [panic |-> 0, sauces |-> <<>>]

\* mutant: 999 itself is rejected, as the error text has it
num_results_invalid_from_999(nr) == nr.some /\ nr.val >= 999

\* line 534
num_results_invalid(nr) == nr.some /\ nr.val > 999
\* mutant: 100.0 itself is rejected
min_similarity_invalid_from_100(ms) == ms.some /\ (FGe(ms.val, F(1000)) \/ FLt(ms.val, F(0)))

\* line 542
min_similarity_invalid(ms) == ms.some /\ (FGt(ms.val, F(1000)) \/ FLt(ms.val, F(0)))
\* line 558
status_ok(status) == status >= 0

\* The call ends: what it leaves in the Cells and what the caller sees.
Finish(a, req, resp, r, sl, ll, sleft, lleft, lg) ==
    /\ args' = Some(a)
    /\ request' = req
    /\ response' = resp
    /\ ret' = r
    /\ short_limit' = sl
    /\ long_limit' = ll
    /\ short_left' = sleft
    /\ long_left' = lleft
    /\ last_good' = lg
    /\ UNCHANGED <<config, filters>>

Return(a, req, resp, r) ==
    Finish(a, req, resp, r, short_limit, long_limit, short_left, long_left, last_good)

\* lines 557-619
handle_response(a, req, body) ==
    LET h == body.header IN
    IF status_ok(h.status)
    THEN LET sl == ParseU32(h.short_limit)
             ll == ParseU32(h.long_limit)
             got == collect_sauces(body.results, a.min_similarity)
         IN  IF ~sl.ok
             THEN Finish(a, Some(req), Some(body), RetPanic(562),
                         short_limit, long_limit, h.short_remaining, h.long_remaining, Some(h))
             ELSE IF ~ll.ok
             THEN Finish(a, Some(req), Some(body), RetPanic(563),
                         sl.val, long_limit, h.short_remaining, h.long_remaining, Some(h))
             ELSE Finish(a, Some(req), Some(body),
                         IF got.panic /= 0 THEN RetPanic(got.panic) ELSE RetOk(got.sauces),
                         sl.val, ll.val, h.short_remaining, h.long_remaining, Some(h))
    ELSE Return(a, Some(req), Some(body), RetErr(invalid_code(h.status, h.message)))

\* file_ok: can image_path be read as a file; net: what the POST and its
\* deserialisation into SauceResult produce.
get_sauce(image_path, nr, ms, file_ok, net) ==
    LET a == [image_path |-> image_path, num_results |-> nr, min_similarity |-> ms] IN
    IF num_results_invalid(nr)
    THEN Return(a, None, None, RetErr(invalid_parameter("num_results must be less than 999.")))
    ELSE IF min_similarity_invalid(ms)
    THEN Return(a, None, None,
                RetErr(invalid_parameter("min_similarity must be less 100.0 and greater than 0.0.")))
    ELSE LET u == generate_url(image_path, nr) IN
         IF u.panic THEN Return(a, None, None, RetPanic(329))
         ELSE IF ~form_is_link(image_path) /\ ~file_ok
         THEN Return(a, None, None, RetErr(io_error))
         ELSE LET req == [url |-> u.url,
                          form |-> IF form_is_link(image_path) THEN <<>>
                                   ELSE << [name |-> "file", path |-> image_path] >>]
              IN  IF net.kind /= "ok"
                  THEN Return(a, Some(req), None, RetErr(reqwest_error))
                  ELSE handle_response(a, req, net.body)

\* lines 448-450
set_min_similarity(x) ==
    /\ min_similarity' = x
    /\ UNCHANGED <<config, limits, empty_filter_enabled, call>>

\* lines 462-464
set_empty_filter(enabled) ==
    /\ empty_filter_enabled' = enabled
    /\ UNCHANGED <<config, limits, min_similarity, call>>

\* Handler::new, lines 420-436
new(a_testmode, a_db_mask, a_db_mask_i, a_db, a_num_results) ==
    /\ api_key = <<"k">>
    /\ output_type = 2
    /\ testmode = a_testmode
    /\ db_mask = a_db_mask
    /\ db_mask_i = a_db_mask_i
    /\ db = a_db
    /\ num_results = a_num_results
    /\ short_limit = 12
    /\ long_limit = 200
    /\ short_left = 12
    /\ long_left = 200
    /\ min_similarity = F(0)
    /\ empty_filter_enabled = FALSE
    /\ args = None
    /\ request = None
    /\ response = None
    /\ ret = RetNone
    /\ last_good = None

----
(* Inputs *)

MaxMaskLen == 2
MaxResults == 2
MaxNumResults == 1000

SeqsUpTo(S, n) == UNION {[1..k -> S] : k \in 0..n}
OptionOf(S) == {None} \cup {Some(x) : x \in S}

LinkHttp == HTTP \o <<"a">>
LinkHttps == HTTPS \o <<"a">>
FilePath == <<"a", ".", "j">>
NearLink == <<"h", "t", "t", "p", ":", "/", "a">>
ImagePaths == {LinkHttp, LinkHttps, FilePath, NearLink}

\* whether the path can be read as a file matters only when it is not sent as a link
FileOutcomes(image_path) ==
    IF StartsWith(image_path, HTTP) \/ StartsWith(image_path, HTTPS) THEN {TRUE} ELSE BOOLEAN

NumResultsArgs == OptionOf({0} \cup (999..MaxNumResults))
MinSimilarityArgs == OptionOf({F(-1), F(0), F(505), F(1000), F(1001), NaN})

Header(status, sr, lr, sl, ll) ==
    [status |-> status, short_remaining |-> sr, long_remaining |-> lr,
     short_limit |-> sl, long_limit |-> ll, message |-> <<"m">>]
Body(h, results) == [header |-> h, results |-> results]
NetOk(body) == [kind |-> "ok", body |-> body]
SendError == [kind |-> "send_error"]
JsonError == [kind |-> "json_error"]

ResultItem(sim, name, urls) == [similarity |-> sim, index_name |-> name, ext_urls |-> urls]
IndexName == <<"I", " ", "#", "5", ":", " ", "P">>
ResultItems ==
    { ResultItem(<<"9", "5", ".", "5">>, IndexName, <<"u">>),
      ResultItem(<<"4", "0">>, IndexName, <<>>),
      ResultItem(<<"x">>, IndexName, <<"u">>),
      ResultItem(<<"9", "5">>, <<"I", " ", "5">>, <<"u">>) }
ResultLists == OptionOf(SeqsUpTo(ResultItems, MaxResults))

Headers ==
    { Header(st, sr, 90, sl, ll) :
        st \in {-1, 0, 1}, sr \in {2, 3},
        sl \in { <<"4">>, <<"x">> }, ll \in { <<"1", "0", "0">>, <<>> } }

GoodHeader == Header(0, 3, 90, <<"4">>, <<"1", "0", "0">>)
GoodBody == Body(GoodHeader, Some(<<ResultItem(<<"4", "0">>, IndexName, <<>>)>>))

\* every header without results, and every result list under one good header
Bodies ==
    {Body(h, None) : h \in Headers} \cup {Body(GoodHeader, r) : r \in ResultLists}

----
(* Spec: one Handler with the default database selection; every argument of
   get_sauce varies. *)

Init ==
    /\ overflow_checks = FALSE
    /\ \E n \in OptionOf({10, -1}) : new(None, None, None, None, n)

GetSauce ==
    \E image_path \in ImagePaths, nr \in NumResultsArgs, ms \in MinSimilarityArgs :
        \E file_ok \in FileOutcomes(image_path), net \in {SendError, NetOk(GoodBody)} :
            get_sauce(image_path, nr, ms, file_ok, net)

Next == GetSauce

Spec == Init /\ [][Next]_vars

----
(* SpecResp: one Handler; the server's answer varies. *)

InitResp ==
    /\ overflow_checks = FALSE
    /\ new(None, None, None, None, None)

GetSauceResp ==
    \E ms \in OptionOf({F(505)}), file_ok \in {TRUE},
       net \in {SendError, JsonError} \cup {NetOk(b) : b \in Bodies} :
        get_sauce(LinkHttp, None, ms, file_ok, net)

SetMinSimilarity == \E x \in {F(0), F(505)} : set_min_similarity(x)

SetEmptyFilter == \E enabled \in BOOLEAN : set_empty_filter(enabled)

NextResp == GetSauceResp \/ SetMinSimilarity \/ SetEmptyFilter

SpecResp == InitResp /\ [][NextResp]_vars

----
(* SpecConfig: the database selection given to Handler::new varies. *)

MaskIndices == {5, 17, 18, 33}

InitConfig ==
    /\ overflow_checks \in BOOLEAN
    /\ \E m \in OptionOf(SeqsUpTo(MaskIndices, MaxMaskLen)),
          mi \in OptionOf({<<>>, <<2, 32>>}),
          d \in OptionOf({5, 999}), t \in OptionOf({1}) :
            new(t, m, mi, d, None)

GetSauceConfig ==
    \E file_ok \in {TRUE}, net \in {SendError, NetOk(GoodBody)} :
        get_sauce(LinkHttp, None, None, file_ok, net)

NextConfig == GetSauceConfig

SpecConfig == InitConfig /\ [][NextConfig]_vars

----
(* Reading a request *)

ValuesOf(url, name) == {url[i][2] : i \in {j \in 1..Len(url) : url[j][1] = name}}
Count(url, name) == Cardinality({i \in 1..Len(url) : url[i][1] = name})
Carries(url, name, value) == \E i \in 1..Len(url) : url[i] = <<name, value>>

DecimalValue(s) ==
    IF s /= <<>> /\ Head(s) = "-" THEN 0 - DigitsValue(Tail(s), 0) ELSE DigitsValue(s, 0)

NumResultsRejected ==
    /\ ret.kind = "Err"
    /\ ret.error = invalid_parameter("num_results must be less than 999.")

MinSimilarityRejected ==
    /\ ret.kind = "Err"
    /\ ret.error = invalid_parameter("min_similarity must be less 100.0 and greater than 0.0.")

----
(* Claims *)

\* C1: after any sequence of get_sauce calls the four getters return the
\* short_remaining, long_remaining, short_limit and long_limit of the header of
\* the most recent response whose status was >= 0, or 12, 200, 12, 200 if there
\* has been none.
ClaimC1 ==
    IF last_good.some
    THEN /\ short_left = last_good.val.short_remaining
         /\ long_left = last_good.val.long_remaining
         /\ ParseU32(last_good.val.short_limit) = [ok |-> TRUE, val |-> short_limit]
         /\ ParseU32(last_good.val.long_limit) = [ok |-> TRUE, val |-> long_limit]
    ELSE /\ short_left = 12
         /\ long_left = 200
         /\ short_limit = 12
         /\ long_limit = 200

\* C2: get_sauce rejects a per-search num_results exactly when it exceeds 999:
\* above 999 the call returns the invalid-parameter error and sends nothing;
\* from 0 to 999 (999 included) the validation does not reject it.
ThmC2 ==
    args.some =>
        LET nr == args.val.num_results IN
        /\ (nr.some /\ nr.val > 999) =>
                NumResultsRejected /\ request = None /\ response = None
        /\ (nr.some /\ nr.val >= 0 /\ nr.val <= 999) => ~NumResultsRejected
        /\ ~nr.some => ~NumResultsRejected

WitC2 ==
    /\ args.some
    /\ args.val.num_results = Some(999)
    /\ request.some
    /\ ret.kind = "Ok"

\* C3: a per-search min_similarity below 0.0 or above 100.0 is rejected with an
\* invalid-parameter error and nothing is sent; values from 0 to 100 (bounds
\* included) pass; when num_results is invalid too, the error is the
\* num_results one.
ThmC3 ==
    args.some =>
        LET nr == args.val.num_results
            ms == args.val.min_similarity
            nr_bad == nr.some /\ nr.val > 999
            ms_bad == ms.some /\ ~ms.val.nan /\ (ms.val.v < 0 \/ ms.val.v > 1000)
            ms_good == ms.some /\ ~ms.val.nan /\ ms.val.v >= 0 /\ ms.val.v <= 1000
        IN  /\ (ms_bad /\ ~nr_bad) => MinSimilarityRejected /\ request = None /\ response = None
            /\ (ms_bad /\ nr_bad) => NumResultsRejected /\ request = None
            /\ ms_good => ~MinSimilarityRejected

WitC3 ==
    /\ args.some
    /\ args.val.min_similarity = Some(F(1000))
    /\ request.some
    /\ ret.kind = "Ok"

\* C4: a response whose header status is negative makes get_sauce return the
\* error carrying exactly that status and the header's message, and no results;
\* a status >= 0 (0 included) makes it return Ok with a result list.
ClaimC4 ==
    response.some =>
        LET h == response.val.header IN
        IF h.status < 0
        THEN ret = RetErr(invalid_code(h.status, h.message))
        ELSE ret.kind = "Ok"

\* C5 as claimed: the URL carries db=999 exactly when no db was configured and
\* db_mask is None or empty; db=<value> whenever a db was configured; dbmask
\* exactly when db_mask is non-empty; dbmaski exactly when db_mask_i is
\* non-empty; hence at least one of db and dbmask, and never two db parameters.
ClaimC5 ==
    request.some =>
        LET url == request.val.url
            mask_empty == ~db_mask.some \/ db_mask.val = <<>>
            maski_empty == ~db_mask_i.some \/ db_mask_i.val = <<>>
        IN  /\ Carries(url, "db", <<"9", "9", "9">>) <=> (~db.some /\ mask_empty)
            /\ db.some => Carries(url, "db", to_string(db.val))
            /\ Count(url, "dbmask") = (IF mask_empty THEN 0 ELSE 1)
            /\ Count(url, "dbmaski") = (IF maski_empty THEN 0 ELSE 1)
            /\ Count(url, "db") + Count(url, "dbmask") >= 1
            /\ Count(url, "db") <= 1

\* C5, amended: the URL carries db=999 exactly when db was configured as 999, or
\* no db was configured and db_mask is None or empty; the rest as claimed.
ThmC5 ==
    request.some =>
        LET url == request.val.url
            mask_empty == ~db_mask.some \/ db_mask.val = <<>>
            maski_empty == ~db_mask_i.some \/ db_mask_i.val = <<>>
        IN  /\ Carries(url, "db", <<"9", "9", "9">>)
                    <=> (db = Some(999) \/ (~db.some /\ mask_empty))
            /\ db.some => /\ Count(url, "db") = 1
                          /\ \A v \in ValuesOf(url, "db") : DecimalValue(v) = db.val
            /\ Count(url, "dbmask") = (IF mask_empty THEN 0 ELSE 1)
            /\ Count(url, "dbmaski") = (IF maski_empty THEN 0 ELSE 1)
            /\ Count(url, "db") + Count(url, "dbmask") >= 1
            /\ Count(url, "db") <= 1

WitC5 ==
    /\ request.some
    /\ db = Some(999)
    /\ db_mask.some
    /\ db_mask.val /= <<>>
    /\ Carries(request.val.url, "db", <<"9", "9", "9">>)
    /\ Count(request.val.url, "dbmask") = 1

\* the bit the claim gives index m
ClaimedBit(m) == IF m < 18 THEN m ELSE m - 1

Listed(mask) == {mask[i] : i \in 1..Len(mask)}

\* the value has exactly the bits of the listed indices
IncludesExactly(value, mask) ==
    /\ \A m \in Listed(mask) : ClaimedBit(m) <= 31
    /\ value = U32ToString({ClaimedBit(m) : m \in Listed(mask)})

\* C6: the dbmask (dbmaski) value sent has the bit of every index listed in
\* db_mask (db_mask_i) set, bit m for m < 18 and bit m-1 for m >= 18, and no
\* other bit.
ClaimC6 ==
    request.some =>
        LET url == request.val.url IN
        /\ (db_mask.some /\ db_mask.val /= <<>>) =>
                \A v \in ValuesOf(url, "dbmask") : IncludesExactly(v, db_mask.val)
        /\ (db_mask_i.some /\ db_mask_i.val /= <<>>) =>
                \A v \in ValuesOf(url, "dbmaski") : IncludesExactly(v, db_mask_i.val)

NumresAsClaimed ==
    request.some =>
        LET url == request.val.url
            nr == args.val.num_results
            want == IF nr.some THEN nr.val
                    ELSE IF num_results.some THEN num_results.val ELSE 999
        IN  /\ Count(url, "numres") = 1
            /\ \A v \in ValuesOf(url, "numres") : DecimalValue(v) = want

\* C7: every generated URL has exactly one numres parameter: the per-search
\* num_results when given, otherwise the Handler's configured num_results,
\* otherwise 999; and no search changes the Handler's configured default.
ThmC7 == [](NumresAsClaimed) /\ [][num_results' = num_results]_vars

WitC7 ==
    /\ request.some
    /\ args.val.num_results = Some(0)
    /\ num_results = Some(10)
    /\ Carries(request.val.url, "numres", <<"0">>)

\* C8: the image goes out in exactly one of two ways: as a url parameter and no
\* file part when image_path starts with "http://" or "https://", otherwise as
\* the single "file" part read from image_path and no url parameter.
ThmC8 ==
    request.some =>
        LET url == request.val.url
            form == request.val.form
            image_path == args.val.image_path
        IN  IF StartsWith(image_path, HTTP) \/ StartsWith(image_path, HTTPS)
            THEN /\ Count(url, "url") = 1
                 /\ Carries(url, "url", image_path)
                 /\ form = <<>>
            ELSE /\ Count(url, "url") = 0
                 /\ form = << [name |-> "file", path |-> image_path] >>

WitC8 ==
    /\ request.some
    /\ args.val.image_path = FilePath
    /\ Count(request.val.url, "url") = 0
    /\ Len(request.val.form) = 1

====
